---- MODULE Spec2Model ----
(***************************************************************************)
(* Model of the Palmwine-tapper remote unit (client code/main.py) and      *)
(* actuator unit (server code/main.py, new_motor.py, dcmotor.py).          *)
(*                                                                         *)
(* The module holds several specifications over one set of variables:      *)
(*   SpecServer   LoRaServer.on_message dispatching to the two motors      *)
(*   SpecButton   one ButtonInput polled at arbitrary times                *)
(*   SpecEncoder  one RotaryEncoder polled with arbitrary clk/dt levels    *)
(* Each specification leaves the variables of the other components at      *)
(* their initial values.                                                   *)
(*                                                                         *)
(* Text is modelled as a sequence of one-character strings so that the     *)
(* parsing code (split, strip, upper, startswith, int) is computed the way *)
(* the program computes it.                                                *)
(***************************************************************************)
EXTENDS Integers, Sequences, FiniteSets, TLC

VARIABLES
    \* ---- server (actuator unit) ----
    pin,            \* level of the physical output pins, by pin number
    duty,           \* PWM duty of the cutting motor's enable pin
    srv_msg,        \* the payload handled by the last on_message call
    srv_result,     \* how the last on_message call classified its payload
    srv_raised,     \* TRUE when the last on_message call raised to its caller
    srv_cmds,       \* motor commands issued by the last on_message call
    srv_repeat,     \* TRUE when the last payload was the one delivered before it
    boot,           \* output writes main() has still to make before LoRaServer()
    registered,     \* TRUE once lora.on_recv is on_message
    \* ---- client: one ButtonInput ----
    btn_debounce,   \* debounce_ms
    btn_raw,        \* level of the input pin
    btn_state,      \* _last_state
    btn_last_time,  \* _last_time
    now,            \* ticks_ms()
    btn_changed,    \* changed flag returned by the last read
    btn_ret,        \* state returned by the last read
    btn_seq,        \* flips at every read
    btn_read_time,  \* time of the last read (-1: none yet)
    btn_cand_since, \* time of the first read of the current unbroken run of
                    \* reads that saw raw # _last_state (-1: no such run)
    btn_stable_seen,\* time the pin was last observed at the stable level
    btn_scen,       \* progress of the reads so far along scenario A (-1: off)
    \* ---- client: one RotaryEncoder ----
    enc_min,        \* min_v
    enc_max,        \* max_v
    enc_start,      \* start
    enc_counter,    \* counter
    enc_last_clk,   \* _last_clk
    enc_last_sent,  \* _last_sent
    enc_changed,    \* changed flag returned by the last read
    enc_prev,       \* counter before the last read
    enc_op,         \* the last operation: "init", "read", "mark_sent"
    enc_pclk,       \* _last_clk before the last read
    enc_clk,        \* clk level seen by the last read
    enc_dt,         \* dt level seen by the last read
    enc_reads,      \* number of reads since construction
    enc_ups,        \* number of rising edges so far when all had dt = 0
                    \* (-1 once a rising edge had dt = 1)
    \* ---- one motor driver on its own outputs ----
    drv_kind,       \* the driver class: "CustomMotorDriver", "DCMotor", "Bts7960"
    drv_out,        \* its outputs: [pin: level by attribute, duty: duty by PWM]
    drv_todo,       \* what the method call in progress has still to do
    drv_cmd,        \* the method call in progress, or the last one
    drv_prev,       \* the method call before drv_cmd
    drv_prev_ok,    \* TRUE when drv_prev returned without raising
    drv_pre,        \* the outputs when drv_cmd was called
    drv_raised,     \* TRUE when drv_cmd raised InvalidSpeedException
    \* ---- client: RemoteUnitApp, its three buttons and its radio ----
    app_state,      \* _last_state of each button, by name
    app_last_time,  \* _last_time of each button, by name
    app_now,        \* ticks_ms() at the last _poll_buttons
    app_last_button_states, \* _last_button_states
    app_raw,        \* the pin levels the last _poll_buttons read, by name
    app_sent,       \* TRUE when the last _poll_buttons called lora.send
    app_msg,        \* the message it passed (empty when it sent none)
    app_ok,         \* what LoRaClient.send returned (FALSE when none was sent)
    app_acked,      \* the levels carried by the last report whose send
                    \* returned True (the levels at construction before any)
    \* ---- client: RemoteUnitApp, its encoders and its radio ----
    pe_enc,         \* counter, _last_clk and _last_sent of each encoder, by index
    pe_rep,         \* by index, what the last _poll_encoders did with its report:
                    \* tried (send called), ok (send returned True), value,
                    \* marked (mark_sent called)
    pe_acked,       \* by index, the value of the last report whose send
                    \* returned True (the start value before any)
    pe_polls,       \* number of _poll_encoders calls so far
    \* ---- server: on_message one hardware write at a time ----
    rx_queue,       \* packets the radio has received and not yet handed to
                    \* on_recv, each with what on_message was doing on arrival
    h_stack,        \* the on_message calls in progress, innermost first: the
                    \* payload, what is left to do, and how the packet arrived
    h_last,         \* the payload of the last on_message call that returned
    h_waited        \* what on_message was doing when that payload arrived

srv_vars == <<pin, duty, srv_msg, srv_result, srv_raised, srv_cmds, srv_repeat,
             boot, registered>>
btn_vars == <<btn_debounce, btn_raw, btn_state, btn_last_time, now, btn_changed,
              btn_ret, btn_seq, btn_read_time, btn_cand_since, btn_stable_seen,
              btn_scen>>
enc_vars == <<enc_min, enc_max, enc_start, enc_counter, enc_last_clk,
              enc_last_sent, enc_changed, enc_prev, enc_op, enc_pclk, enc_clk,
              enc_dt, enc_reads, enc_ups>>
drv_vars == <<drv_kind, drv_out, drv_todo, drv_cmd, drv_prev, drv_prev_ok,
             drv_pre, drv_raised>>
app_vars == <<app_state, app_last_time, app_now, app_last_button_states, app_raw,
             app_sent, app_msg, app_ok, app_acked>>
pe_vars == <<pe_enc, pe_rep, pe_acked, pe_polls>>
dsp_vars == <<rx_queue, h_stack, h_last, h_waited>>
vars == <<srv_vars, btn_vars, enc_vars, drv_vars, app_vars, pe_vars, dsp_vars>>

-----------------------------------------------------------------------------
(* Text helpers: Python str operations on sequences of characters.         *)

LowerAlpha == <<"a","b","c","d","e","f","g","h","i","j","k","l","m",
                "n","o","p","q","r","s","t","u","v","w","x","y","z">>
UpperAlpha == <<"A","B","C","D","E","F","G","H","I","J","K","L","M",
                "N","O","P","Q","R","S","T","U","V","W","X","Y","Z">>
Digits == <<"0","1","2","3","4","5","6","7","8","9">>

\* str.upper() on one character
LowerSet == { LowerAlpha[i] : i \in 1..Len(LowerAlpha) }
RECURSIVE IndexIn(_, _, _)
IndexIn(s, c, i) == IF i > Len(s) THEN 0 ELSE IF s[i] = c THEN i ELSE IndexIn(s, c, i + 1)
UpperChar(c) == IF c \in LowerSet THEN UpperAlpha[IndexIn(LowerAlpha, c, 1)] ELSE c

\* str.upper()
Upper(s) == [i \in 1..Len(s) |-> UpperChar(s[i])]

IsSpace(c) == c \in {" ", "\t", "\n", "\r"}

RECURSIVE LStrip(_)
LStrip(s) == IF s # <<>> /\ IsSpace(Head(s)) THEN LStrip(Tail(s)) ELSE s

RECURSIVE RStrip(_)
RStrip(s) ==
    IF s # <<>> /\ IsSpace(s[Len(s)]) THEN RStrip(SubSeq(s, 1, Len(s) - 1)) ELSE s

\* str.strip()
Strip(s) == RStrip(LStrip(s))

\* str.startswith(p)
StartsWith(s, p) == Len(s) >= Len(p) /\ SubSeq(s, 1, Len(p)) = p

\* c in s, for a one-character c
Contains(s, c) == IndexIn(s, c, 1) # 0

\* index of the first c in s (s contains c)
FirstIndex(s, c) == IndexIn(s, c, 1)

\* str.split(c, 1): one piece when c is absent, two otherwise
Split1(s, c) ==
    IF Contains(s, c)
    THEN << SubSeq(s, 1, FirstIndex(s, c) - 1), SubSeq(s, FirstIndex(s, c) + 1, Len(s)) >>
    ELSE << s >>

\* str.split(c): every piece, empty pieces included
RECURSIVE SplitAll(_, _)
SplitAll(s, c) ==
    IF Contains(s, c)
    THEN << SubSeq(s, 1, FirstIndex(s, c) - 1) >>
         \o SplitAll(SubSeq(s, FirstIndex(s, c) + 1, Len(s)), c)
    ELSE << s >>

DigitVal(c) == IndexIn(Digits, c, 1) - 1
IsDigit(c) == IndexIn(Digits, c, 1) # 0

RECURSIVE DigitsVal(_, _)
DigitsVal(s, acc) ==
    IF s = <<>> THEN acc
    ELSE IF Head(s) = "_" THEN DigitsVal(Tail(s), acc)
    ELSE DigitsVal(Tail(s), 10 * acc + DigitVal(Head(s)))

\* the digit part of an integer literal: digits, single underscores between them
IsDigitString(s) ==
    /\ s # <<>>
    /\ \A i \in 1..Len(s) : IsDigit(s[i]) \/ s[i] = "_"
    /\ IsDigit(s[1]) /\ IsDigit(s[Len(s)])
    /\ \A i \in 1..(Len(s) - 1) : ~(s[i] = "_" /\ s[i+1] = "_")

\* int(s): surrounding whitespace ignored, an optional sign, then digits;
\* anything else raises ValueError (raised = TRUE)
IntParse(s) ==
    LET t    == Strip(s)
        sign == IF t # <<>> /\ t[1] \in {"+", "-"} THEN t[1] ELSE ""
        body == IF sign = "" THEN t ELSE Tail(t)
    IN  IF IsDigitString(body)
        THEN [raised |-> FALSE,
              val |-> IF sign = "-" THEN 0 - DigitsVal(body, 0) ELSE DigitsVal(body, 0)]
        ELSE [raised |-> TRUE, val |-> 0]

\* ",".join(parts)
RECURSIVE Join(_, _)
Join(parts, c) ==
    IF parts = <<>> THEN <<>>
    ELSE IF Len(parts) = 1 THEN parts[1]
    ELSE parts[1] \o <<c>> \o Join(Tail(parts), c)

-----------------------------------------------------------------------------
(* Actuator unit: pins, motor drivers, motor wrappers.                     *)

\* main(): ClimbingMotor(25, 26) and CuttingMotor(26, 25, 27)
CLIMB_CLK_PIN == 25
CLIMB_ANTI_PIN == 26
CUT_IN1_PIN == 26
CUT_IN2_PIN == 25
\* DCMotor(..., self.pwm, 350, 1023) and CuttingMotor.start(speed=100)
CUT_MIN_DUTY == 350
CUT_MAX_DUTY == 1023
CUT_DEFAULT_SPEED == 100

\* the GPIO numbers driven as outputs by the two motors
OutPins == {CLIMB_CLK_PIN, CLIMB_ANTI_PIN, CUT_IN1_PIN, CUT_IN2_PIN}

\* Pin.value(v) and PWM.duty(d), as hardware writes
PinW(no, v) == [kind |-> "pin", no |-> no, val |-> v]
DutyW(d) == [kind |-> "duty", no |-> 0, val |-> d]

\* the outputs h = [pin, duty] after one write
ApplyWrite(h, w) ==
    IF w.kind = "pin"
    THEN [h EXCEPT !.pin = [h.pin EXCEPT ![w.no] = w.val]]
    ELSE [h EXCEPT !.duty = w.val]

\* the outputs after a sequence of writes, in order
RECURSIVE ApplyWrites(_, _)
ApplyWrites(h, ws) ==
    IF ws = <<>> THEN h ELSE ApplyWrites(ApplyWrite(h, Head(ws)), Tail(ws))

\* CustomMotorDriver, as the pin writes each method makes
rotate_clockwise(clk, anti_clk) == << PinW(clk, 0), PinW(anti_clk, 1) >>
rotate_anti_clockwise(clk, anti_clk) == << PinW(clk, 1), PinW(anti_clk, 0) >>
CustomMotorDriver_stop(clk, anti_clk) == << PinW(clk, 0), PinW(anti_clk, 0) >>

\* DCMotor.duty_cycle(speed)
duty_cycle(speed, min_duty, max_duty) ==
    IF speed <= 0 THEN 0
    ELSE LET sp == IF speed > 100 THEN 100 ELSE speed
         IN  (min_duty * 100 + (max_duty - min_duty) * sp) \div 100

\* DCMotor.forward(speed), DCMotor.brake()
DCMotor_forward(pin1, pin2, speed, min_duty, max_duty) ==
    << DutyW(duty_cycle(speed, min_duty, max_duty)), PinW(pin1, 1), PinW(pin2, 0) >>
DCMotor_brake(pin1, pin2, max_duty) == << DutyW(max_duty), PinW(pin1, 1), PinW(pin2, 1) >>

\* DCMotor.backwards(speed) and DCMotor.stop()
DCMotor_backwards(pin1, pin2, speed, min_duty, max_duty) ==
    << DutyW(duty_cycle(speed, min_duty, max_duty)), PinW(pin1, 0), PinW(pin2, 1) >>
DCMotor_stop(pin1, pin2) == << DutyW(0), PinW(pin1, 0), PinW(pin2, 0) >>

\* ClimbingMotor.clockwise / anticlockwise / stop
ClimbingMotor_clockwise == rotate_clockwise(CLIMB_CLK_PIN, CLIMB_ANTI_PIN)
ClimbingMotor_anticlockwise == rotate_anti_clockwise(CLIMB_CLK_PIN, CLIMB_ANTI_PIN)
ClimbingMotor_stop == CustomMotorDriver_stop(CLIMB_CLK_PIN, CLIMB_ANTI_PIN)

\* CuttingMotor.start(speed=100) / stop
CuttingMotor_start ==
    DCMotor_backwards(CUT_IN1_PIN, CUT_IN2_PIN, CUT_DEFAULT_SPEED, CUT_MIN_DUTY, CUT_MAX_DUTY)
CuttingMotor_stop == DCMotor_stop(CUT_IN1_PIN, CUT_IN2_PIN) \o << DutyW(0) >>

\* ClimbingMotor.__init__ and CuttingMotor.__init__: the pins are made outputs
\* (no level is written), then the motor is stopped
ClimbingMotor_init == ClimbingMotor_stop
CuttingMotor_init == << DutyW(0) >> \o CuttingMotor_stop

\* main() up to the construction of LoRaServer: both motors are built, then
\* stopped once more
main_startup ==
    ClimbingMotor_init \o CuttingMotor_init \o ClimbingMotor_stop \o CuttingMotor_stop

\* every level the outputs can hold; at power-up they hold any of them
AllHw == [pin : [OutPins -> {0, 1}], duty : {0, CUT_MAX_DUTY}]

\* the writes of one motor command
WritesOf(cmd) ==
    CASE cmd = "ClimbForward" -> ClimbingMotor_clockwise
      [] cmd = "ClimbReverse" -> ClimbingMotor_anticlockwise
      [] cmd = "ClimbStop"    -> ClimbingMotor_stop
      [] cmd = "CutStart"     -> CuttingMotor_start
      [] cmd = "CutStop"      -> CuttingMotor_stop

\* the outputs after a sequence of motor commands
RECURSIVE ApplyCmds(_, _)
ApplyCmds(h, cmds) ==
    IF cmds = <<>> THEN h
    ELSE ApplyCmds(ApplyWrites(h, WritesOf(Head(cmds))), Tail(cmds))

\* what the climbing motor's two direction lines make it do
ClimbState(h) ==
    LET c == h.pin[CLIMB_CLK_PIN]
        a == h.pin[CLIMB_ANTI_PIN]
    IN  CASE c = 0 /\ a = 0 -> "Stopped"
          [] c = 0 /\ a = 1 -> "Forward"
          [] c = 1 /\ a = 0 -> "Reverse"
          [] OTHER          -> "Invalid"

\* the cutting motor turns when its bridge inputs differ and its enable has duty
CutRunning(h) == h.duty > 0 /\ h.pin[CUT_IN1_PIN] # h.pin[CUT_IN2_PIN]

-----------------------------------------------------------------------------
(* Actuator unit: LoRaServer.on_message and handle_button_message.         *)

\* the dict built from the name=value pairs, later pairs overriding earlier
RECURSIVE ParsePairsAbortOnBadInt(_, _)
ParsePairsAbortOnBadInt(parts, data) ==
    IF parts = <<>> THEN data
    ELSE LET part == Head(parts)
         IN  IF Contains(part, "=")
             THEN LET kv  == Split1(part, "=")
                      key == Upper(Strip(kv[1]))
                      n   == IntParse(kv[2])
                  IN  IF n.raised THEN [k \in {} |-> 0]
                      ELSE ParsePairsAbortOnBadInt(Tail(parts),
                                 [k \in (DOMAIN data) \cup {key} |->
                                     IF k = key THEN n.val ELSE data[k]])
             ELSE ParsePairsAbortOnBadInt(Tail(parts), data)
RECURSIVE ParsePairs(_, _)
ParsePairs(parts, data) ==
    IF parts = <<>> THEN data
    ELSE LET part == Head(parts)
         IN  IF Contains(part, "=")
             THEN LET kv  == Split1(part, "=")
                      key == Upper(Strip(kv[1]))
                      n   == IntParse(kv[2])
                      v   == IF n.raised THEN 0 ELSE n.val
                  IN  ParsePairs(Tail(parts),
                                 [k \in (DOMAIN data) \cup {key} |->
                                     IF k = key THEN v ELSE data[k]])
             ELSE ParsePairs(Tail(parts), data)

\* dict.get(key, 0)
Get(data, key) == IF key \in DOMAIN data THEN data[key] ELSE 0

EmptyDict == [k \in {} |-> 0]

\* the climbing branch of handle_button_message
ClimbActionFwdOnClu(clu, cld) ==
    IF clu = 1 THEN "ClimbForward"
    ELSE IF cld = 1 THEN "ClimbReverse"
    ELSE "ClimbStop"
ClimbAction(clu, cld) ==
    IF clu = 1 /\ cld # 1 THEN "ClimbForward"
    ELSE IF cld = 1 /\ clu # 1 THEN "ClimbReverse"
    ELSE "ClimbStop"

\* the cutting branch of handle_button_message
CutAction(ct) == IF ct = 1 THEN "CutStart" ELSE "CutStop"

\* handle_button_message(msg): the commands it issues, in order
handle_button_message_cut_first(msg) ==
    LET data == ParsePairs(SplitAll(msg, ","), EmptyDict)
        clu  == Get(data, <<"C","L","U">>)
        cld  == Get(data, <<"C","L","D">>)
        ct   == Get(data, <<"C","T">>)
    IN  << CutAction(ct), ClimbAction(clu, cld) >>
handle_button_message(msg) ==
    LET data == ParsePairs(SplitAll(msg, ","), EmptyDict)
        clu  == Get(data, <<"C","L","U">>)
        cld  == Get(data, <<"C","L","D">>)
        ct   == Get(data, <<"C","T">>)
    IN  << ClimbAction(clu, cld), CutAction(ct) >>

\* payload.message.decode(): UnicodeError on bytes that are not UTF-8
decode(p) == IF p.utf8 THEN [raised |-> FALSE, val |-> p.text]
             ELSE [raised |-> TRUE, val |-> <<>>]

\* the encoder branch, lines 171-178: any failure is caught and logged
EncoderBranchNoCatch(msg) ==
    LET sp == Split1(msg, ":")
    IN  IF Len(sp) # 2 THEN [raised |-> TRUE, result |-> "encoder"]
        ELSE IF IntParse(SubSeq(sp[1], 2, Len(sp[1]))).raised \/ IntParse(sp[2]).raised
        THEN [raised |-> TRUE, result |-> "encoder"]
        ELSE [raised |-> FALSE, result |-> "encoder"]
EncoderBranch(msg) ==
    LET r == EncoderBranchNoCatch(msg)
    IN  IF r.raised THEN [raised |-> FALSE, result |-> "bad_encoder"] ELSE r

\* the body of on_message's outer try
on_message_body(p) ==
    LET d   == decode(p)
        msg == Strip(d.val)
    IN  IF d.raised
        THEN [raised |-> TRUE, result |-> "none", cmds |-> <<>>]
        ELSE IF StartsWith(Upper(msg), <<"B","T","N",":">>)
        THEN [raised |-> FALSE, result |-> "button",
              cmds |-> handle_button_message(SubSeq(msg, 5, Len(msg)))]
        ELSE IF StartsWith(msg, <<"E">>)
        THEN LET e == EncoderBranch(msg)
             IN  [raised |-> e.raised, result |-> e.result, cmds |-> <<>>]
        ELSE [raised |-> FALSE, result |-> "unknown", cmds |-> <<>>]

\* on_message(payload): the outer except turns any exception into a log line
on_message_no_except(p) == on_message_body(p)
on_message(p) ==
    LET r == on_message_body(p)
    IN  IF r.raised THEN [r EXCEPT !.raised = FALSE, !.result = "error"] ELSE r

-----------------------------------------------------------------------------
(* Payloads delivered to the receiver.                                     *)

\* texts a BTN field's value takes on the wire; option 0 leaves the pair out
FieldTexts == << <<"0">>, <<"1">>, <<"2">>, <<"x">>, <<" ","1"," ">> >>
FieldOpts == 0..Len(FieldTexts)

\* the integer each option stands for once parsed (absent or unparsable: 0)
FieldInt(o) == CASE o = 1 -> 0 [] o = 2 -> 1 [] o = 3 -> 2 [] o = 5 -> 1 [] OTHER -> 0

BtnPair(name, o) == IF o = 0 THEN <<>> ELSE << name \o <<"=">> \o FieldTexts[o] >>

\* "BTN:" + ",".join(parts), as _poll_buttons builds it
BtnText(clu, cld, ct) ==
    <<"B","T","N",":">>
    \o Join(BtnPair(<<"C","L","U">>, clu) \o BtnPair(<<"C","L","D">>, cld)
            \o BtnPair(<<"C","T">>, ct), ",")

BtnTexts == { BtnText(a, b, c) : a \in FieldOpts, b \in FieldOpts, c \in FieldOpts }

\* other texts: empty, unknown prefixes, pairs without "=", lower case,
\* encoder reports good and bad
OtherTexts ==
    { <<>>,
      <<"X","Y","Z">>,
      <<"H","e","l","l","o">>,
      <<"B","T","N">>,
      <<"B","T","N",":","C","L","U">>,
      <<"B","T","N",":","C","L","U",",","C","L","D","=","1">>,
      <<"b","t","n",":","c","l","u","=","1",",","c","l","d","=","0">>,
      <<" ","B","T","N",":","C","L","D","=","1","\n">>,
      <<"B","T","N",":","C","L","U","=","1",",","C","L","U","=","0">>,
      <<"B","T","N",":","C","L","U","=","=","1">>,
      <<"E">>,
      <<"E","2">>,
      <<"E","2",":","8","5">>,
      <<"E"," ","2"," ",":"," ","8","5">>,
      <<"E","x",":","1">>,
      <<"E","1",":","x">>,
      <<"E",":">>,
      <<"e","2",":","8","5">>,
      <<"E","2",":","-","5">> }

NotUtf8 == [utf8 |-> FALSE, text |-> <<>>]
Payloads == { [utf8 |-> TRUE, text |-> t] : t \in BtnTexts \cup OtherTexts } \cup {NotUtf8}

-----------------------------------------------------------------------------
(* The receiver's one entry point.                                         *)

\* on_message reads nothing but its payload: its outcome, tabulated by payload
on_message_table == [p \in Payloads |-> on_message(p)]

\* the radio delivers payload p: on_message(p) runs to completion
OnMessageCutOnChange(p) ==
    LET r == on_message_table[p]
        c == IF r.cmds # <<>> /\ srv_cmds # <<>> /\ r.cmds[2] = srv_cmds[2]
             THEN << r.cmds[1] >> ELSE r.cmds
        h == ApplyCmds([pin |-> pin, duty |-> duty], c)
    IN  /\ registered
        /\ UNCHANGED <<boot, registered>>
        /\ srv_msg' = p
        /\ srv_result' = r.result
        /\ srv_raised' = r.raised
        /\ srv_cmds' = r.cmds
        /\ srv_repeat' = (srv_result # "init" /\ p = srv_msg)
        /\ pin' = h.pin
        /\ duty' = h.duty
OnMessage(p) ==
    LET r == on_message_table[p]
        h == ApplyCmds([pin |-> pin, duty |-> duty], r.cmds)
    IN  /\ registered
        /\ UNCHANGED <<boot, registered>>
        /\ srv_msg' = p
        /\ srv_result' = r.result
        /\ srv_raised' = r.raised
        /\ srv_cmds' = r.cmds
        /\ srv_repeat' = (srv_result # "init" /\ p = srv_msg)
        /\ pin' = h.pin
        /\ duty' = h.duty

Receive == \E p \in Payloads : OnMessage(p)

\* main() makes its next output write
BootStep ==
    /\ boot # <<>>
    /\ LET h == ApplyWrite([pin |-> pin, duty |-> duty], Head(boot))
       IN  pin' = h.pin /\ duty' = h.duty
    /\ boot' = Tail(boot)
    /\ UNCHANGED <<srv_msg, srv_result, srv_raised, srv_cmds, srv_repeat, registered>>

\* LoRaServer.__init__ sets lora.on_recv, once main() has got that far
RegisterBeforeStops ==
    /\ ~registered
    /\ registered' = TRUE
    /\ UNCHANGED <<pin, duty, srv_msg, srv_result, srv_raised, srv_cmds, srv_repeat, boot>>
Register ==
    /\ boot = <<>>
    /\ ~registered
    /\ registered' = TRUE
    /\ UNCHANGED <<pin, duty, srv_msg, srv_result, srv_raised, srv_cmds, srv_repeat, boot>>

-----------------------------------------------------------------------------
(* Remote unit: ButtonInput.                                               *)

\* debounce_ms: the constructor's default and the value RemoteUnitApp passes
DEBOUNCE_DEFAULT == 20
DEBOUNCE_APP == 30

\* the clock stops advancing at MaxTime
MaxTime == 40
\* amounts by which the clock advances between two events
TimeSteps == {4, 5}

\* ButtonInput.read() at time t with the pin at level raw
ButtonInput_read_no_refresh(state, last_time, debounce, t, raw) ==
    IF raw # state
    THEN IF t - last_time >= debounce
         THEN [changed |-> TRUE, ret |-> raw, state |-> raw, last_time |-> t]
         ELSE [changed |-> FALSE, ret |-> state, state |-> state, last_time |-> last_time]
    ELSE [changed |-> FALSE, ret |-> state, state |-> state, last_time |-> last_time]
ButtonInput_read(state, last_time, debounce, t, raw) ==
    IF raw # state
    THEN IF t - last_time >= debounce
         THEN [changed |-> TRUE, ret |-> raw, state |-> raw, last_time |-> t]
         ELSE [changed |-> FALSE, ret |-> state, state |-> state, last_time |-> last_time]
    ELSE [changed |-> FALSE, ret |-> state, state |-> state, last_time |-> t]

\* scenario A: the raw levels of six reads 5 time units apart
ScenARaw == <<0, 1, 0, 1, 1, 1>>

\* time passes
Advance(d) ==
    /\ now + d <= MaxTime
    /\ now' = now + d
    /\ UNCHANGED <<btn_debounce, btn_raw, btn_state, btn_last_time, btn_changed,
                   btn_ret, btn_seq, btn_read_time, btn_cand_since,
                   btn_stable_seen, btn_scen>>

\* the contact bounces or the button is pressed or released
PinChange ==
    /\ btn_raw' = 1 - btn_raw
    /\ UNCHANGED <<btn_debounce, btn_state, btn_last_time, now, btn_changed,
                   btn_ret, btn_seq, btn_read_time, btn_cand_since,
                   btn_stable_seen, btn_scen>>

\* one call of ButtonInput.read()
ButtonRead ==
    LET cand == IF btn_changed THEN -1 ELSE btn_cand_since
        r == ButtonInput_read(btn_state, btn_last_time, btn_debounce, now, btn_raw)
    IN  /\ btn_state' = r.state
        /\ btn_last_time' = r.last_time
        /\ btn_changed' = r.changed
        /\ btn_ret' = r.ret
        /\ btn_seq' = 1 - btn_seq
        /\ btn_read_time' = now
        /\ btn_cand_since' = IF btn_raw = btn_state THEN -1
                             ELSE IF cand = -1 THEN now ELSE cand
        /\ btn_stable_seen' = IF btn_raw = r.state THEN now ELSE btn_stable_seen
        /\ btn_scen' = IF /\ btn_scen \in 0..(Len(ScenARaw) - 1)
                          /\ btn_raw = ScenARaw[btn_scen + 1]
                          /\ (btn_scen = 0 \/ now - btn_read_time = 5)
                       THEN btn_scen + 1 ELSE -1
        /\ UNCHANGED <<btn_debounce, btn_raw, now>>

NextButton ==
    \/ (\E d \in TimeSteps : Advance(d)) /\ UNCHANGED <<srv_vars, enc_vars, drv_vars, app_vars, pe_vars, dsp_vars>>
    \/ PinChange /\ UNCHANGED <<srv_vars, enc_vars, drv_vars, app_vars, pe_vars, dsp_vars>>
    \/ ButtonRead /\ UNCHANGED <<srv_vars, enc_vars, drv_vars, app_vars, pe_vars, dsp_vars>>

-----------------------------------------------------------------------------
(* Remote unit: RotaryEncoder.                                             *)

\* RotaryEncoder.__init__ defaults: min_v=0, max_v=180, start=90
ENC_MIN_V == 0
ENC_MAX_V == 180
ENC_START == 90

\* the largest max_v of the small encoders, and the number of reads modelled
SmallMax == 2
MaxReads == 7

\* (min_v, max_v, start) of the encoders modelled: the default one and every
\* small one with min_v <= start <= max_v
EncConfigs ==
    { <<ENC_MIN_V, ENC_MAX_V, ENC_START>> }
    \cup { <<lo, hi, st>> : lo \in {-1, 0}, hi \in -1..SmallMax, st \in -1..SmallMax }

\* RotaryEncoder.read() with the pins at levels clk and dt
RotaryEncoder_read_no_clamp(counter, last_clk, min_v, max_v, clk, dt) ==
    IF clk # last_clk /\ clk = 1
    THEN [counter |-> IF dt = 0 THEN counter + 1 ELSE counter - 1,
          last_clk |-> clk, changed |-> TRUE]
    ELSE [counter |-> counter, last_clk |-> clk, changed |-> FALSE]
RotaryEncoder_read_any_edge(counter, last_clk, min_v, max_v, clk, dt) ==
    IF clk # last_clk
    THEN LET c == IF dt = 0 THEN counter + 1 ELSE counter - 1
         IN  [counter |-> IF c < min_v THEN min_v ELSE IF c > max_v THEN max_v ELSE c,
              last_clk |-> clk, changed |-> TRUE]
    ELSE [counter |-> counter, last_clk |-> clk, changed |-> FALSE]
RotaryEncoder_read(counter, last_clk, min_v, max_v, clk, dt) ==
    IF clk # last_clk /\ clk = 1
    THEN LET c == IF dt = 0 THEN counter + 1 ELSE counter - 1
         IN  [counter |-> IF c < min_v THEN min_v ELSE IF c > max_v THEN max_v ELSE c,
              last_clk |-> clk, changed |-> TRUE]
    ELSE [counter |-> counter, last_clk |-> clk, changed |-> FALSE]

\* RotaryEncoder.needs_send()
needs_send(counter, last_sent) == counter # last_sent

\* RotaryEncoder.mark_sent(): the new _last_sent
mark_sent_keep(counter, last_sent) == last_sent
mark_sent(counter, last_sent) == counter

\* one call of RotaryEncoder.read()
EncRead(clk, dt) ==
    LET r == RotaryEncoder_read(enc_counter, enc_last_clk, enc_min, enc_max, clk, dt)
        rising == enc_last_clk = 0 /\ clk = 1
    IN  /\ enc_reads < MaxReads
        /\ enc_counter' = r.counter
        /\ enc_last_clk' = r.last_clk
        /\ enc_changed' = r.changed
        /\ enc_prev' = enc_counter
        /\ enc_op' = "read"
        /\ enc_pclk' = enc_last_clk
        /\ enc_clk' = clk
        /\ enc_dt' = dt
        /\ enc_reads' = enc_reads + 1
        /\ enc_ups' = IF ~rising THEN enc_ups
                      ELSE IF enc_ups >= 0 /\ dt = 0 THEN enc_ups + 1 ELSE -1
        /\ UNCHANGED <<enc_min, enc_max, enc_start, enc_last_sent>>

\* one call of RotaryEncoder.mark_sent()
EncMarkSent ==
    /\ enc_last_sent' = mark_sent(enc_counter, enc_last_sent)
    /\ enc_op' = "mark_sent"
    /\ UNCHANGED <<enc_min, enc_max, enc_start, enc_counter, enc_last_clk,
                   enc_changed, enc_prev, enc_pclk, enc_clk, enc_dt, enc_reads,
                   enc_ups>>

NextEncoder ==
    \/ (\E clk \in {0, 1}, dt \in {0, 1} : EncRead(clk, dt)) /\ UNCHANGED <<srv_vars, btn_vars, drv_vars, app_vars, pe_vars, dsp_vars>>
    \/ EncMarkSent /\ UNCHANGED <<srv_vars, btn_vars, drv_vars, app_vars, pe_vars, dsp_vars>>

-----------------------------------------------------------------------------
(* Remote unit: RemoteUnitApp.run, _poll_buttons and LoRaClient.send.      *)

\* RemoteUnitApp.POLL_MS, the sleep_ms(6) after an encoder report, and the
\* number of encoders
POLL_MS == 4
ENC_TX_GAP_MS == 6
NUM_ENCODERS == 4

\* the clock of the remote unit stops advancing at MaxAppTime
MaxAppTime == 64

\* self.buttons, in the order the dict is written
ButtonNames == << "CLU", "CLD", "CT" >>
Buttons == { ButtonNames[i] : i \in 1..Len(ButtonNames) }
NameText(n) ==
    CASE n = "CLU" -> <<"C","L","U">>
      [] n = "CLD" -> <<"C","L","D">>
      [] n = "CT"  -> <<"C","T">>
\* str(level) of a pin level
LevelText(v) == IF v = 0 THEN <<"0">> ELSE <<"1">>

\* the time from one _poll_buttons to the next: the sleep of POLL_MS, and 6 ms
\* more for every encoder report _poll_encoders sent in between (none, or one
\* for each encoder)
TickDurations == { POLL_MS + k * ENC_TX_GAP_MS : k \in {0, NUM_ENCODERS} }

\* "BTN:" + ",".join(parts), parts[i] being f"{name}={state}"
ReportOf(parts) == <<"B","T","N",":">> \o Join(parts, ",")
\* the report that carries level lv[n] for every button n, for every lv
FullReport ==
    [lv \in [Buttons -> {0, 1}] |->
        ReportOf([i \in 1..Len(ButtonNames) |->
                     NameText(ButtonNames[i]) \o <<"=">> \o LevelText(lv[ButtonNames[i]])])]

\* _poll_buttons at time t with the pins at levels raw: the buttons' new
\* fields, the new _last_button_states, and the message if one is sent
poll_buttons_changed_only(state, last_time, lbs, t, raw) ==
    LET r == [n \in Buttons |-> ButtonInput_read(state[n], last_time[n], DEBOUNCE_APP, t, raw[n])]
        changed_any == \E n \in Buttons : r[n].changed
        part(i) == NameText(ButtonNames[i]) \o <<"=">> \o LevelText(r[ButtonNames[i]].ret)
        IsChanged(i) == r[ButtonNames[i]].changed
        parts == [i \in 1..Len(ButtonNames) |-> part(i)]
        sel == SelectSeq([i \in 1..Len(ButtonNames) |-> i], IsChanged)
    IN  [ state     |-> [n \in Buttons |-> r[n].state],
          last_time |-> [n \in Buttons |-> r[n].last_time],
          lbs       |-> [n \in Buttons |-> IF r[n].changed THEN r[n].ret ELSE lbs[n]],
          send      |-> changed_any,
          msg       |-> IF changed_any
                        THEN ReportOf([j \in 1..Len(sel) |-> parts[sel[j]]])
                        ELSE <<>> ]
poll_buttons(state, last_time, lbs, t, raw) ==
    LET r == [n \in Buttons |-> ButtonInput_read(state[n], last_time[n], DEBOUNCE_APP, t, raw[n])]
        changed_any == \E n \in Buttons : r[n].changed
    IN  [ state     |-> [n \in Buttons |-> r[n].state],
          last_time |-> [n \in Buttons |-> r[n].last_time],
          lbs       |-> [n \in Buttons |-> IF r[n].changed THEN r[n].ret ELSE lbs[n]],
          send      |-> changed_any,
          msg       |-> IF changed_any THEN FullReport[[n \in Buttons |-> r[n].ret]]
                        ELSE <<>> ]

\* one iteration of the loop in run(), seen from _poll_buttons: d ms after
\* the previous one the buttons are polled with the pins at levels raw, and
\* LoRaClient.send, if called, returns ok
AppTick(d, raw, ok) ==
    \E t \in {app_now + d} :
    \E r \in {poll_buttons(app_state, app_last_time, app_last_button_states, t, raw)} :
        /\ t <= MaxAppTime
        /\ ok \/ r.send
        /\ app_now' = t
        /\ app_raw' = raw
        /\ app_state' = r.state
        /\ app_last_time' = r.last_time
        /\ app_last_button_states' = r.lbs
        /\ app_sent' = r.send
        /\ app_msg' = r.msg
        /\ app_ok' = (r.send /\ ok)
        /\ app_acked' = IF r.send /\ ok THEN r.state ELSE app_acked

NextApp ==
    (\E d \in TickDurations, raw \in [Buttons -> {0, 1}], ok \in BOOLEAN : AppTick(d, raw, ok))
        /\ UNCHANGED <<srv_vars, btn_vars, enc_vars, drv_vars, pe_vars, dsp_vars>>

-----------------------------------------------------------------------------
(* Remote unit: RemoteUnitApp._poll_encoders and LoRaClient.send.          *)

\* the encoder indexes followed: the first two of self.encoders (all four are
\* built alike and polled by the same loop body)
PolledEncoders == {0, 1}

\* the number of _poll_encoders calls modelled
MaxPolls == 6

NoReport == [tried |-> FALSE, ok |-> FALSE, value |-> 0, marked |-> FALSE]

\* the body of the loop in _poll_encoders for one encoder e, its pins at
\* levels clk and dt, LoRaClient.send returning ok if it is called
poll_encoder_mark_always(e, clk, dt, ok) ==
    LET r    == RotaryEncoder_read(e.counter, e.last_clk, ENC_MIN_V, ENC_MAX_V, clk, dt)
        send == r.changed /\ needs_send(r.counter, e.last_sent)
    IN  [ enc |-> [ counter   |-> r.counter,
                    last_clk  |-> r.last_clk,
                    last_sent |-> IF send THEN mark_sent(r.counter, e.last_sent)
                                  ELSE e.last_sent ],
          rep |-> IF send
                  THEN [tried |-> TRUE, ok |-> ok, value |-> r.counter, marked |-> TRUE]
                  ELSE NoReport ]
poll_encoder(e, clk, dt, ok) ==
    LET r    == RotaryEncoder_read(e.counter, e.last_clk, ENC_MIN_V, ENC_MAX_V, clk, dt)
        send == r.changed /\ needs_send(r.counter, e.last_sent)
    IN  [ enc |-> [ counter   |-> r.counter,
                    last_clk  |-> r.last_clk,
                    last_sent |-> IF send /\ ok THEN mark_sent(r.counter, e.last_sent)
                                  ELSE e.last_sent ],
          rep |-> IF send
                  THEN [tried |-> TRUE, ok |-> ok, value |-> r.counter, marked |-> ok]
                  ELSE NoReport ]

\* one call of _poll_encoders: every encoder is read and, if it reports, its
\* message is sent; the encoders have no state in common
PollEncoders(clk, dt, ok) ==
    \E r \in {[i \in PolledEncoders |-> poll_encoder(pe_enc[i], clk[i], dt[i], ok[i])]} :
        /\ pe_polls < MaxPolls
        /\ \A i \in PolledEncoders : ok[i] \/ r[i].rep.tried
        /\ pe_polls' = pe_polls + 1
        /\ pe_enc' = [i \in PolledEncoders |-> r[i].enc]
        /\ pe_rep' = [i \in PolledEncoders |-> r[i].rep]
        /\ pe_acked' = [i \in PolledEncoders |->
                           IF r[i].rep.tried /\ r[i].rep.ok THEN r[i].rep.value
                           ELSE pe_acked[i]]

NextPoll ==
    (\E clk \in [PolledEncoders -> {0, 1}], dt \in [PolledEncoders -> {0, 1}],
        ok \in [PolledEncoders -> BOOLEAN] : PollEncoders(clk, dt, ok))
        /\ UNCHANGED <<srv_vars, btn_vars, enc_vars, drv_vars, app_vars, dsp_vars>>

-----------------------------------------------------------------------------
(* The motor driver classes, one instance on its own outputs, each method  *)
(* call made one hardware write at a time.                                 *)

\* Bts7960.start: the mid-scale duty 511 and the full-scale duty 1023
BTS_MID_DUTY == 511
BTS_MAX_DUTY == 1023
BTS_MAX_SPEED == 100

\* PWM.duty(d) on the PWM object held in attribute name
PwmW(name, d) == [kind |-> "duty", no |-> name, val |-> d]
\* raise InvalidSpeedException()
RaiseInvalidSpeed == [kind |-> "raise", no |-> 0, val |-> 0]

\* Bts7960._enable and Bts7960._disable
Bts7960_enable == << PinW("l_enable", 1), PinW("r_enable", 1) >>
Bts7960_disable == << PinW("l_enable", 0), PinW("r_enable", 0) >>

\* int(511.5 + (speed / 100) * (1023 - 511.5)) for speed > 0 and
\* int(511.5 * (1 - speed / 100)) for speed < 0, in halves of a duty step
Bts7960_forward_duty(speed) ==
    ((2 * BTS_MID_DUTY + 1) * 100 + speed * (2 * BTS_MAX_DUTY - (2 * BTS_MID_DUTY + 1))) \div 200
Bts7960_reverse_duty(speed) == ((2 * BTS_MID_DUTY + 1) * (100 - speed)) \div 200

\* Bts7960.start(speed): what it does, in order
Bts7960_start(speed) ==
    << PinW("l_enable", 0), PinW("l_enable", 1) >> \o
    ( IF speed > BTS_MAX_SPEED \/ speed < -BTS_MAX_SPEED THEN << RaiseInvalidSpeed >>
      ELSE IF speed > 0
           THEN Bts7960_enable \o << PwmW("l_pwm", BTS_MID_DUTY),
                                     PwmW("r_pwm", Bts7960_forward_duty(speed)) >>
      ELSE IF speed < 0
           THEN Bts7960_enable \o << PwmW("r_pwm", BTS_MID_DUTY),
                                     PwmW("l_pwm", Bts7960_reverse_duty(speed)) >>
      ELSE Bts7960_disable \o << PwmW("r_pwm", BTS_MID_DUTY), PwmW("l_pwm", BTS_MID_DUTY) >> )

\* Bts7960.stop()
Bts7960_stop == Bts7960_start(0)

\* the speeds the driver methods are called with
DcSpeeds == {50, 100}
BtsSpeeds == {-150, -100, -50, 0, 50, 100, 150}

DriverKinds == {"CustomMotorDriver", "DCMotor", "Bts7960"}

\* the method calls a driver of each class accepts
DriverCalls(kind) ==
    CASE kind = "CustomMotorDriver" ->
            [op : {"rotate_clockwise", "rotate_anti_clockwise", "stop"}, speed : {0}]
      [] kind = "DCMotor" ->
            [op : {"forward", "backwards"}, speed : DcSpeeds]
               \cup [op : {"stop", "brake"}, speed : {0}]
      [] kind = "Bts7960" ->
            [op : {"start"}, speed : BtsSpeeds] \cup [op : {"stop"}, speed : {0}]

\* what a method call does, in order; the DCMotor is built as CuttingMotor
\* builds it, with duties 350 and 1023
DriverSteps(kind, c) ==
    CASE kind = "CustomMotorDriver" ->
            ( CASE c.op = "rotate_clockwise"      -> rotate_clockwise("clk", "anti_clk")
                [] c.op = "rotate_anti_clockwise" -> rotate_anti_clockwise("clk", "anti_clk")
                [] c.op = "stop"                  -> CustomMotorDriver_stop("clk", "anti_clk") )
      [] kind = "DCMotor" ->
            ( CASE c.op = "forward"   ->
                       DCMotor_forward("pin1", "pin2", c.speed, CUT_MIN_DUTY, CUT_MAX_DUTY)
                [] c.op = "backwards" ->
                       DCMotor_backwards("pin1", "pin2", c.speed, CUT_MIN_DUTY, CUT_MAX_DUTY)
                [] c.op = "stop"      -> DCMotor_stop("pin1", "pin2")
                [] c.op = "brake"     -> DCMotor_brake("pin1", "pin2", CUT_MAX_DUTY) )
      [] kind = "Bts7960" ->
            ( CASE c.op = "start" -> Bts7960_start(c.speed)
                [] c.op = "stop"  -> Bts7960_stop )

\* the outputs of a driver once constructed and stopped as the motor
\* wrappers' __init__ do; Bts7960.__init__ disables and sets no duty
DriverBuilt(kind) ==
    CASE kind = "CustomMotorDriver" ->
            { [pin |-> [n \in {"clk", "anti_clk"} |-> 0], duty |-> << >>] }
      [] kind = "DCMotor" ->
            { [pin |-> [n \in {"pin1", "pin2"} |-> 0], duty |-> [n \in {0} |-> 0]] }
      [] kind = "Bts7960" ->
            { [pin |-> [n \in {"l_enable", "r_enable"} |-> 0], duty |-> d] :
                 d \in [{"l_pwm", "r_pwm"} -> {0, BTS_MID_DUTY}] }

NoCall == [op |-> "none", speed |-> 0]

\* a method of the driver is called
DriverCall(c) ==
    /\ drv_todo = <<>>
    /\ drv_todo' = DriverSteps(drv_kind, c)
    /\ drv_cmd' = c
    /\ drv_prev' = drv_cmd
    /\ drv_prev_ok' = (drv_cmd # NoCall /\ ~drv_raised)
    /\ drv_pre' = drv_out
    /\ drv_raised' = FALSE
    /\ UNCHANGED <<drv_kind, drv_out>>

\* the call in progress makes its next hardware write
DriverWrite ==
    /\ drv_todo # <<>>
    /\ Head(drv_todo).kind # "raise"
    /\ LET w == Head(drv_todo)
       IN  drv_out' = IF w.kind = "pin"
                      THEN [drv_out EXCEPT !.pin[w.no] = w.val]
                      ELSE [drv_out EXCEPT !.duty[w.no] = w.val]
    /\ drv_todo' = Tail(drv_todo)
    /\ UNCHANGED <<drv_kind, drv_cmd, drv_prev, drv_prev_ok, drv_pre, drv_raised>>

\* the call in progress raises InvalidSpeedException and is over
DriverRaise ==
    /\ drv_todo # <<>>
    /\ Head(drv_todo).kind = "raise"
    /\ drv_raised' = TRUE
    /\ drv_todo' = <<>>
    /\ UNCHANGED <<drv_kind, drv_out, drv_cmd, drv_prev, drv_prev_ok, drv_pre>>

NextDrivers ==
    \/ (\E c \in DriverCalls(drv_kind) : DriverCall(c)) /\ UNCHANGED <<srv_vars, btn_vars, enc_vars, app_vars, pe_vars, dsp_vars>>
    \/ DriverWrite /\ UNCHANGED <<srv_vars, btn_vars, enc_vars, app_vars, pe_vars, dsp_vars>>
    \/ DriverRaise /\ UNCHANGED <<srv_vars, btn_vars, enc_vars, app_vars, pe_vars, dsp_vars>>

-----------------------------------------------------------------------------
(* Actuator unit: on_message followed one hardware write at a time, with   *)
(* packets arriving while it runs.                                         *)

\* the packets sent to the receiver: BTN reports with every field 0 or 1
DispatchPayloads ==
    { [utf8 |-> TRUE, text |-> BtnText(a, b, c)] : a \in {1, 2}, b \in {1, 2}, c \in {1, 2} }

\* the number of packets the radio holds for on_recv
MaxQueue == 1

\* sleep(5) in rotate_clockwise and rotate_anti_clockwise
HoldStep == [kind |-> "sleep", no |-> 0, val |-> 5]

\* what one motor command does, in order: its writes, and the hold of the two
\* rotate methods
CommandSteps(cmd) ==
    WritesOf(cmd) \o (IF cmd \in {"ClimbForward", "ClimbReverse"} THEN << HoldStep >> ELSE << >>)

\* what on_message(p) does to the outputs, in order
RECURSIVE StepsOfCmds(_)
StepsOfCmds(cmds) ==
    IF cmds = <<>> THEN <<>> ELSE CommandSteps(Head(cmds)) \o StepsOfCmds(Tail(cmds))
HandlerSteps(p) == StepsOfCmds(on_message_table[p].cmds)

NoMsg == [utf8 |-> TRUE, text |-> <<>>]

\* what on_message is doing: nothing, holding in sleep(5), or something else
HandlerPhase ==
    IF h_stack = <<>> THEN "idle"
    ELSE IF Head(h_stack).todo # <<>> /\ Head(Head(h_stack).todo).kind = "sleep" THEN "hold"
    ELSE "busy"

\* the radio receives packet p
Arrive(p) ==
    /\ Len(rx_queue) < MaxQueue
    /\ rx_queue' = Append(rx_queue, [msg |-> p, during |-> HandlerPhase])
    /\ UNCHANGED <<pin, duty, h_stack, h_last, h_waited>>

\* the radio hands its oldest packet to on_recv; it does so only when no
\* on_message call is in progress
DeliverReentrant ==
    /\ rx_queue # <<>>
    /\ Len(h_stack) <= 1
    /\ h_stack' = << [msg |-> Head(rx_queue).msg,
                      todo |-> HandlerSteps(Head(rx_queue).msg),
                      during |-> Head(rx_queue).during] >> \o h_stack
    /\ rx_queue' = Tail(rx_queue)
    /\ UNCHANGED <<pin, duty, h_last, h_waited>>
Deliver ==
    /\ rx_queue # <<>>
    /\ h_stack = <<>>
    /\ h_stack' = << [msg |-> Head(rx_queue).msg,
                      todo |-> HandlerSteps(Head(rx_queue).msg),
                      during |-> Head(rx_queue).during] >>
    /\ rx_queue' = Tail(rx_queue)
    /\ UNCHANGED <<pin, duty, h_last, h_waited>>

\* the innermost on_message call makes its next write, or ends its hold
HandlerStep ==
    /\ h_stack # <<>>
    /\ Head(h_stack).todo # <<>>
    /\ LET f == Head(h_stack)
           w == Head(f.todo)
           h == IF w.kind = "sleep" THEN [pin |-> pin, duty |-> duty]
                ELSE ApplyWrite([pin |-> pin, duty |-> duty], w)
       IN  /\ pin' = h.pin
           /\ duty' = h.duty
           /\ h_stack' = << [f EXCEPT !.todo = Tail(f.todo)] >> \o Tail(h_stack)
    /\ UNCHANGED <<rx_queue, h_last, h_waited>>

\* the innermost on_message call returns
HandlerReturn ==
    /\ h_stack # <<>>
    /\ Head(h_stack).todo = <<>>
    /\ h_last' = Head(h_stack).msg
    /\ h_waited' = Head(h_stack).during
    /\ h_stack' = Tail(h_stack)
    /\ UNCHANGED <<pin, duty, rx_queue>>

NextDispatch ==
    ( \/ \E p \in DispatchPayloads : Arrive(p)
      \/ Deliver
      \/ HandlerStep
      \/ HandlerReturn )
    /\ UNCHANGED <<srv_msg, srv_result, srv_raised, srv_cmds, srv_repeat, boot, registered>>
    /\ UNCHANGED <<btn_vars, enc_vars, drv_vars, app_vars, pe_vars>>

NextServer == Receive /\ UNCHANGED <<btn_vars, enc_vars, drv_vars, app_vars, pe_vars, dsp_vars>>
NextStartup == (BootStep \/ Register \/ Receive) /\ UNCHANGED <<btn_vars, enc_vars, drv_vars, app_vars, pe_vars, dsp_vars>>

-----------------------------------------------------------------------------
(* Specifications.                                                         *)

\* The start state.  srv, btn, enc say which components the specification
\* exercises; a component left out starts in one fixed state and never moves.
\*   receiver: main() has built both motors, stopped them and registered
\*             on_message; with power set, main() is only entered: the outputs
\*             hold their power-up levels and nothing is registered;
\*   button:   ButtonInput.__init__ at time 0, _last_state the pin's level;
\*   encoder:  RotaryEncoder.__init__, _last_clk the clk pin's level;
\*   driver:   one driver of any of the three classes, built and stopped;
\*   app:      RemoteUnitApp.__init__ at time 0 with no button held (the
\*             buttons pull their pins down when released);
\*   poll:     the app's encoders as RemoteUnitApp.__init__ builds them, each
\*             clk pin at either level.
Start(power, srv, btn, enc, drv, app, poll) ==
    /\ rx_queue = <<>>
    /\ h_stack = <<>>
    /\ h_last = NoMsg
    /\ h_waited = "idle"
    /\ pe_enc \in [PolledEncoders ->
                     [counter : {ENC_START}, last_clk : (IF poll THEN {0, 1} ELSE {0}),
                      last_sent : {ENC_START}]]
    /\ pe_rep = [i \in PolledEncoders |-> NoReport]
    /\ pe_acked = [i \in PolledEncoders |-> ENC_START]
    /\ pe_polls = 0
    /\ app_state = [n \in Buttons |-> 0]
    /\ app_last_time = [n \in Buttons |-> 0]
    /\ app_now = 0
    /\ app_last_button_states = app_state
    /\ app_raw = app_state
    /\ app_sent = FALSE
    /\ app_msg = <<>>
    /\ app_ok = FALSE
    /\ app_acked = app_state
    /\ drv_kind \in (IF drv THEN DriverKinds ELSE {"CustomMotorDriver"})
    /\ drv_out \in DriverBuilt(drv_kind)
    /\ drv_todo = <<>>
    /\ drv_cmd = NoCall
    /\ drv_prev = NoCall
    /\ drv_prev_ok = FALSE
    /\ drv_pre = drv_out
    /\ drv_raised = FALSE
    /\ \E h \in (IF power THEN AllHw ELSE {[pin |-> [n \in OutPins |-> 0], duty |-> 0]}) :
          pin = h.pin /\ duty = h.duty
    /\ boot = IF power THEN main_startup ELSE <<>>
    /\ registered = ~power
    /\ srv_msg = [utf8 |-> TRUE, text |-> <<>>]
    /\ srv_result = "init"
    /\ srv_raised = FALSE
    /\ srv_cmds = <<>>
    /\ srv_repeat = FALSE
    /\ btn_debounce \in (IF btn THEN {DEBOUNCE_DEFAULT, DEBOUNCE_APP} ELSE {DEBOUNCE_APP})
    /\ btn_raw \in (IF btn THEN {0, 1} ELSE {0})
    /\ btn_state = btn_raw
    /\ btn_last_time = 0
    /\ now = 0
    /\ btn_changed = FALSE
    /\ btn_ret = btn_raw
    /\ btn_seq = 0
    /\ btn_read_time = -1
    /\ btn_cand_since = -1
    /\ btn_stable_seen = 0
    /\ btn_scen = IF btn /\ btn_raw = 0 /\ btn_debounce = DEBOUNCE_APP THEN 0 ELSE -1
    /\ \E c \in (IF enc THEN EncConfigs ELSE {<<ENC_MIN_V, ENC_MAX_V, ENC_START>>}) :
          /\ c[1] <= c[3] /\ c[3] <= c[2]
          /\ enc_min = c[1] /\ enc_max = c[2] /\ enc_start = c[3]
    /\ enc_counter = enc_start
    /\ enc_last_clk \in (IF enc THEN {0, 1} ELSE {0})
    /\ enc_last_sent = enc_start
    /\ enc_changed = FALSE
    /\ enc_prev = enc_start
    /\ enc_op = "init"
    /\ enc_pclk = enc_last_clk
    /\ enc_clk = enc_last_clk
    /\ enc_dt = 0
    /\ enc_reads = 0
    /\ enc_ups = 0

SpecServer == Start(FALSE, TRUE, FALSE, FALSE, FALSE, FALSE, FALSE) /\ [][NextServer]_vars
SpecStartup == Start(TRUE, TRUE, FALSE, FALSE, FALSE, FALSE, FALSE) /\ [][NextStartup]_vars
SpecButton == Start(FALSE, FALSE, TRUE, FALSE, FALSE, FALSE, FALSE) /\ [][NextButton]_vars
SpecEncoder == Start(FALSE, FALSE, FALSE, TRUE, FALSE, FALSE, FALSE) /\ [][NextEncoder]_vars
SpecDrivers == Start(FALSE, FALSE, FALSE, FALSE, TRUE, FALSE, FALSE) /\ [][NextDrivers]_vars
SpecApp == Start(FALSE, FALSE, FALSE, FALSE, FALSE, TRUE, FALSE) /\ [][NextApp]_vars
SpecPoll == Start(FALSE, FALSE, FALSE, FALSE, FALSE, FALSE, TRUE) /\ [][NextPoll]_vars
SpecDispatch == Start(FALSE, TRUE, FALSE, FALSE, FALSE, FALSE, FALSE) /\ [][NextDispatch]_vars

Init == Start(TRUE, TRUE, TRUE, TRUE, TRUE, TRUE, TRUE)
Next == NextStartup \/ NextButton \/ NextEncoder \/ NextDrivers \/ NextApp \/ NextPoll \/ NextDispatch
Spec == Init /\ [][Next]_vars

-----------------------------------------------------------------------------
(* Claims about the receiver (SpecServer).                                 *)

BtnPayload(a, b, c) == [utf8 |-> TRUE, text |-> BtnText(a, b, c)]
IsClimbCmd(c) == c \in {"ClimbForward", "ClimbReverse", "ClimbStop"}
ClimbCmds == SelectSeq(srv_cmds, IsClimbCmd)
\* field options whose text parses to 0 or 1
Parses01 == { o \in FieldOpts : o # 0 /\ ~IntParse(FieldTexts[o]).raised /\ FieldInt(o) \in {0, 1} }
Hw == [pin |-> pin, duty |-> duty]

\* C1: a BTN message whose CLU and CLD both parse to 0 or 1 makes
\* handle_button_message issue exactly one climbing command, the one of the
\* fail-safe table: (1,0) Forward, (0,1) Reverse, (0,0) Stop, (1,1) Stop.
C1_FailSafeTable ==
    \A a \in Parses01, b \in Parses01, c \in FieldOpts :
        srv_msg = BtnPayload(a, b, c) =>
            ClimbCmds = << CASE FieldInt(a) = 1 /\ FieldInt(b) = 0 -> "ClimbForward"
                             [] FieldInt(a) = 0 /\ FieldInt(b) = 1 -> "ClimbReverse"
                             [] FieldInt(a) = 0 /\ FieldInt(b) = 0 -> "ClimbStop"
                             [] FieldInt(a) = 1 /\ FieldInt(b) = 1 -> "ClimbStop" >>

\* C1 witness: the conflicting message BTN:CLU=1,CLD=1 was handled and resolved to Stop
C1_Witness == srv_msg = BtnPayload(2, 2, 0) /\ ClimbCmds = <<"ClimbStop">>

\* C2 (as claimed): for every BTN payload, CLU and CLD being any integer or
\* missing, the climbing command is Forward only for exactly (1,0), Reverse
\* only for exactly (0,1), and Stop for every other combination.
C2_StopUnlessExactSingleBit ==
    \A a \in FieldOpts, b \in FieldOpts, c \in FieldOpts :
        srv_msg = BtnPayload(a, b, c) =>
            ClimbCmds = << IF FieldInt(a) = 1 /\ FieldInt(b) = 0 THEN "ClimbForward"
                           ELSE IF FieldInt(a) = 0 /\ FieldInt(b) = 1 THEN "ClimbReverse"
                           ELSE "ClimbStop" >>

\* the last message's button state is unreadable or ambiguous: unrecognized
\* prefix, undecodable payload, a BTN payload with a corrupt or missing CLU or
\* CLD, or CLU = CLD = 1
UnreadableOrAmbiguous ==
    \/ srv_result \in {"unknown", "error"}
    \/ \E a \in FieldOpts, b \in FieldOpts, c \in FieldOpts :
          /\ srv_msg = BtnPayload(a, b, c)
          /\ \/ a \in {0, 4} \/ b \in {0, 4}
             \/ (FieldInt(a) = 1 /\ FieldInt(b) = 1)

\* C3 (as claimed): after a message whose button state is unreadable or
\* ambiguous has been handled, neither motor is left running.
C3_NoMotorLeftRunning ==
    UnreadableOrAmbiguous => (ClimbState(Hw) = "Stopped" /\ ~CutRunning(Hw))

\* C10: on_message never raises to the radio driver and classifies every
\* payload: a button report, an encoder report, or an unrecognized/bad message.
C10_DecodingTotal ==
    /\ srv_raised = FALSE
    /\ srv_result \in {"init", "button", "encoder", "bad_encoder", "unknown", "error"}
    /\ srv_msg = NotUtf8 => srv_result = "error"
    /\ (srv_result # "init" /\ srv_msg = [utf8 |-> TRUE, text |-> <<>>]) => srv_result = "unknown"
    /\ srv_msg = BtnPayload(0, 0, 0) => srv_result = "button"
    /\ srv_msg = [utf8 |-> TRUE, text |-> <<"B","T","N",":","C","L","U">>] => srv_result = "button"
    /\ srv_msg = [utf8 |-> TRUE, text |-> <<"E","2">>] => srv_result = "bad_encoder"
    /\ srv_msg = [utf8 |-> TRUE, text |-> <<"E","x",":","1">>] => srv_result = "bad_encoder"
    /\ srv_msg = [utf8 |-> TRUE, text |-> <<"E","1",":","x">>] => srv_result = "bad_encoder"
    /\ srv_msg = [utf8 |-> TRUE, text |-> <<"E","2",":","8","5">>] => srv_result = "encoder"

\* C10 witness: bytes that are not UTF-8 were delivered and on_message returned
C10_Witness == srv_msg = NotUtf8 /\ srv_result = "error" /\ ~srv_raised

IsCutCmd(c) == c \in {"CutStart", "CutStop"}
LowerCaseBtn == [utf8 |-> TRUE,
                 text |-> <<"b","t","n",":","c","l","u","=","1",",","c","l","d","=","0">>]

\* C11: each name=value pair of a BTN payload is parsed on its own after
\* upper-casing the name: a value that is no integer counts as 0 for that name
\* only, the other pairs keep their values.  BTN:CLU=x,CLD=0 resolves to Stop,
\* BTN:CLU=x,CLD=1 to Reverse.
C11_FieldsParsedIndependently ==
    /\ \A a \in FieldOpts, b \in FieldOpts, c \in FieldOpts :
          srv_msg = BtnPayload(a, b, c) =>
             /\ ClimbCmds = << IF FieldInt(a) = 1 /\ FieldInt(b) # 1 THEN "ClimbForward"
                               ELSE IF FieldInt(b) = 1 /\ FieldInt(a) # 1 THEN "ClimbReverse"
                               ELSE "ClimbStop" >>
             /\ SelectSeq(srv_cmds, IsCutCmd)
                   = << IF FieldInt(c) = 1 THEN "CutStart" ELSE "CutStop" >>
    /\ srv_msg = BtnPayload(4, 1, 0) => ClimbCmds = <<"ClimbStop">>
    /\ srv_msg = BtnPayload(4, 2, 0) => ClimbCmds = <<"ClimbReverse">>
    /\ srv_msg = LowerCaseBtn => ClimbCmds = <<"ClimbForward">>

\* C11 witness: BTN:CLU=x,CLD=1 was handled and resolved to Reverse
C11_Witness == srv_msg = BtnPayload(4, 2, 0) /\ ClimbCmds = <<"ClimbReverse">>

\* C12: every BTN message makes handle_button_message issue exactly one
\* climbing command and then exactly one cutting command, the cutting one
\* being start when CT = 1 and stop otherwise whatever CLU and CLD are;
\* BTN:CLU=1,CLD=0,CT=1 gives ClimbForward then CutStart.
C12_ClimbThenCut ==
    /\ srv_result = "button" =>
          Len(srv_cmds) = 2 /\ IsClimbCmd(srv_cmds[1]) /\ IsCutCmd(srv_cmds[2])
    /\ \A a \in FieldOpts, b \in FieldOpts, c \in FieldOpts :
          srv_msg = BtnPayload(a, b, c) =>
             srv_cmds[Len(srv_cmds)] = IF FieldInt(c) = 1 THEN "CutStart" ELSE "CutStop"
    /\ srv_msg = BtnPayload(2, 1, 2) => srv_cmds = <<"ClimbForward", "CutStart">>

\* C12 witness: scenario C, BTN:CLU=1,CLD=0,CT=1, was handled
C12_Witness == srv_msg = BtnPayload(2, 1, 2) /\ srv_cmds = <<"ClimbForward", "CutStart">>

\* C17: the dispatcher keeps no memory across messages: the outputs after a
\* BTN message are those its commands produce from any earlier outputs
\* whatever, so they depend on the message alone and delivering it twice
\* leaves the motors as delivering it once.
C17_NoCrossMessageMemory ==
    /\ srv_result = "button" => \A h \in AllHw : ApplyCmds(h, srv_cmds) = Hw
    /\ (srv_result = "button" /\ srv_repeat) => ApplyCmds(Hw, srv_cmds) = Hw

\* C17 witness: a BTN message that starts the cutter was delivered twice running
C17_Witness == srv_result = "button" /\ srv_repeat /\ srv_cmds[2] = "CutStart"

\* the state of the climbing lines a climbing command asks for
ClimbTarget(c) ==
    CASE c = "ClimbForward" -> "Forward"
      [] c = "ClimbReverse" -> "Reverse"
      [] c = "ClimbStop"    -> "Stopped"

\* C23 (as claimed): as main() wires the receiver, a cutting command leaves
\* the climbing motor's two direction outputs alone and a climbing command
\* leaves the cutting motor's, so that after handle_button_message the
\* climbing outputs show the action resolved from (CLU, CLD) and the cutting
\* outputs the action resolved from CT.
C23_MotorsIndependent ==
    srv_result = "button" =>
        /\ ClimbState(Hw) = ClimbTarget(srv_cmds[1])
        /\ CutRunning(Hw) <=> (srv_cmds[2] = "CutStart")

-----------------------------------------------------------------------------
(* Claims about the receiver's dispatch (SpecDispatch).                    *)

-----------------------------------------------------------------------------
(* Claims about the receiver's startup (SpecStartup).                      *)

AllOutputsLow == (\A n \in OutPins : pin[n] = 0) /\ duty = 0

\* C13: in main() both motors have been commanded to Stopped (both direction
\* lines of each low, cutting duty 0) before the receive callback is
\* registered: registration finds every startup write made and every output
\* low, and no message is dispatched before it.
C13_StoppedBeforeRegistered ==
    /\ registered => boot = <<>>
    /\ (registered /\ srv_result = "init") =>
          AllOutputsLow /\ ClimbState(Hw) = "Stopped" /\ ~CutRunning(Hw)
    /\ srv_result # "init" => registered

\* C13 witness: the callback has just been registered, nothing dispatched yet
C13_Witness == registered /\ srv_result = "init" /\ AllOutputsLow

-----------------------------------------------------------------------------
(* Claims about the motor drivers (SpecDrivers).                           *)

\* C18 (as claimed): a Bts7960.start call with a speed outside [-100, 100]
\* raises InvalidSpeedException and leaves both enable pins and both PWM
\* duties as they were before the call, whatever they were.
C18_RejectedStartChangesNothing ==
    (drv_kind = "Bts7960" /\ drv_raised) => drv_out = drv_pre

\* C19 (as claimed): in every state of the climbing driver, those between the
\* two pin writes of a method included, (clk, anti_clk) is (0,0), (0,1) or
\* (1,0) and never (1,1), whatever sequence of rotate_clockwise,
\* rotate_anti_clockwise and stop is called.
C19_NeverBothHigh ==
    drv_kind = "CustomMotorDriver" =>
        << drv_out.pin["clk"], drv_out.pin["anti_clk"] >> \in {<<0, 0>>, <<0, 1>>, <<1, 0>>}

\* the call in progress (or just over) repeats the call before it, which
\* returned normally
Reissued == drv_prev_ok /\ drv_cmd = drv_prev

\* C20 (as claimed): for each of the three drivers, calling again the method
\* that produced the current outputs changes no output pin, enable line or
\* duty at any step of the call, and leaves the outputs as they were.
C20_ReissueNoGlitch == Reissued => drv_out = drv_pre

-----------------------------------------------------------------------------
(* Claims about the remote unit's poll loop (SpecApp).                     *)

\* the step is one iteration of the poll loop
IsAppTick == app_now' # app_now

\* C14 (as claimed): when LoRaClient.send returned False for a report and the
\* unit's state still differs from what was last reported successfully, the
\* next poll tick attempts the transmission again, the physical inputs being
\* the same as in the failed tick.
C14_RetryAfterFailedSend ==
    [][ ( /\ IsAppTick
          /\ app_sent /\ ~app_ok
          /\ app_raw' = app_raw
          /\ app_state' # app_acked' ) => app_sent' ]_vars

\* C15 (as claimed): a report is emitted in a tick only if at least one value
\* it carries differs from the value carried by the last report whose send
\* succeeded (the initial value if none did); the report of a release that
\* follows a failed report of the press is not emitted with every value
\* equal to the last successfully reported one.
C15_ReportOnlyOnDifference ==
    [][ (IsAppTick /\ app_sent') => app_msg' # FullReport[app_acked] ]_vars

\* the name=level pairs of a button report
PairsOf(msg) == SplitAll(SubSeq(msg, 5, Len(msg)), ",")

\* C16: in every poll tick _poll_buttons sends a button report exactly when
\* the debounced level of at least one button changed in that tick, and the
\* report holds exactly one NAME=level pair for each of CLU, CLD and CT, with
\* the button's current debounced level (not the raw level, and not only the
\* buttons that changed).
C16_FullReportOnChange ==
    [][ IsAppTick =>
          /\ app_sent' <=> (app_state' # app_state)
          /\ app_sent' =>
                /\ StartsWith(app_msg', <<"B","T","N",":">>)
                /\ \E pairs \in {PairsOf(app_msg')} :
                      /\ Len(pairs) = Cardinality(Buttons)
                      /\ \A n \in Buttons :
                            \E i \in 1..Len(pairs) :
                                pairs[i] = NameText(n) \o <<"=">> \o LevelText(app_state'[n]) ]_vars

\* C16 witness: a report was sent in a tick in which one button changed while
\* another was bouncing (its raw level differing from its debounced level),
\* and it carried the debounced level of all three
C16_Witness ==
    /\ app_sent
    /\ app_state # app_acked
    /\ \E n \in Buttons : app_raw[n] # app_state[n]
    /\ app_msg = FullReport[app_state]

-----------------------------------------------------------------------------
(* Claims about the remote unit's encoder reports (SpecPoll).              *)

\* C21: for every encoder index mark_sent is called only after a send that
\* returned True, so _last_sent is always the start value or the value of the
\* latest report sent successfully; hence a report sent successfully never
\* carries the value of the successful report before it for that index,
\* whatever the edges and the send failures.
C21_NoRepeatedEncoderReport ==
    /\ [] \A i \in PolledEncoders :
            /\ pe_rep[i].marked => (pe_rep[i].tried /\ pe_rep[i].ok)
            /\ pe_enc[i].last_sent = pe_acked[i]
    /\ [][ \A i \in PolledEncoders :
              (pe_polls' # pe_polls /\ pe_rep'[i].ok) => pe_rep'[i].value # pe_acked[i] ]_vars

\* C21 witness: for one index a report went out, then a report of a later
\* value failed: _last_sent is the value that went out, not the counter
C21_Witness ==
    \E i \in PolledEncoders :
        /\ pe_rep[i].tried /\ ~pe_rep[i].ok /\ ~pe_rep[i].marked
        /\ pe_acked[i] # ENC_START
        /\ pe_enc[i].last_sent = pe_acked[i]
        /\ pe_enc[i].counter # pe_enc[i].last_sent

-----------------------------------------------------------------------------
(* Claims about ButtonInput (SpecButton).                                  *)

\* C4 (as claimed): read reports a change only if the new level has been
\* observed for at least debounce_ms, counted from the first read that saw it.
C4_CommitOnlyAfterWindow ==
    btn_changed => btn_read_time - btn_cand_since >= btn_debounce

\* C5: a read that sees the stable level refreshes the timer and reports no
\* change, so a change is reported only debounce_ms or more after the pin was
\* last seen at the stable level; the six reads of scenario A all report
\* changed = false.
C5_BounceDiscarded ==
    /\ [](btn_scen >= 1 => ~btn_changed)
    /\ [][ btn_seq' # btn_seq =>
             /\ btn_raw = btn_state =>
                   (btn_last_time' = now /\ ~btn_changed' /\ btn_state' = btn_state)
             /\ btn_changed' => now - btn_stable_seen >= btn_debounce ]_vars

\* C5 witness: the six reads of scenario A have been made
C5_Witness == btn_scen = Len(ScenARaw) /\ btn_debounce = DEBOUNCE_APP /\ ~btn_changed

-----------------------------------------------------------------------------
(* Claims about RotaryEncoder (SpecEncoder).                               *)

Clamp(v) == IF v < enc_min THEN enc_min ELSE IF v > enc_max THEN enc_max ELSE v
LastReadRising == enc_reads > 0 /\ enc_pclk = 0 /\ enc_clk = 1
DefaultEncoder == enc_min = ENC_MIN_V /\ enc_max = ENC_MAX_V /\ enc_start = ENC_START

\* C6: counter stays within [min_v, max_v] through every sequence of reads.
C6_CounterInRange == enc_min <= enc_counter /\ enc_counter <= enc_max

\* C6 witness: a rising edge with dt = 0 arrived while counter was at max_v
C6_Witness == LastReadRising /\ enc_dt = 0 /\ enc_prev = enc_max /\ enc_counter = enc_max

\* C7: counter moves only on a rising clk edge, by +1 when dt is 0 and by -1
\* when dt is 1, then is clamped; from start 90 in [0,180] three rising edges
\* with dt = 0 give 93, each reporting changed = true.
C7_RisingEdgeOnly ==
    /\ enc_reads > 0 =>
          enc_counter = IF LastReadRising
                        THEN Clamp(IF enc_dt = 0 THEN enc_prev + 1 ELSE enc_prev - 1)
                        ELSE enc_prev
    /\ (DefaultEncoder /\ enc_ups = 3) => enc_counter = ENC_START + 3
    /\ (DefaultEncoder /\ enc_ups \in 1..3 /\ LastReadRising) => enc_changed

\* C7 witness: scenario B has run to its third rising edge
C7_Witness == DefaultEncoder /\ enc_ups = 3 /\ LastReadRising /\ enc_counter = ENC_START + 3

\* C8 (as claimed): changed is true exactly when the read altered counter.
C8_ChangedIffCounterDiffers ==
    enc_reads > 0 => (enc_changed <=> enc_counter # enc_prev)

\* C9: needs_send() is false right after mark_sent(), reads never touch
\* _last_sent, and needs_send() turns true only by a read that moves counter
\* to a value other than the recorded one.
C9_NeedsSend ==
    /\ [](enc_op = "mark_sent" => ~needs_send(enc_counter, enc_last_sent))
    /\ [][ /\ enc_reads' # enc_reads => enc_last_sent' = enc_last_sent
           /\ (~needs_send(enc_counter, enc_last_sent)
               /\ needs_send(enc_counter', enc_last_sent')) =>
                 (enc_reads' # enc_reads /\ enc_counter' # enc_counter
                  /\ enc_counter' # enc_last_sent) ]_vars

\* C9 witness: a value was marked sent, then a read moved counter away from it
C9_Witness ==
    /\ enc_op = "read" /\ enc_last_sent # enc_start
    /\ enc_prev = enc_last_sent /\ enc_counter # enc_last_sent

====
